---------------------------- MODULE Spec2Model ----------------------------
(***************************************************************************)
(* DistributedPlug (modelscope/models/nlp/plug/distributed_plug.py):       *)
(* the generation loop with its sliding window, the top-k / nucleus        *)
(* filter and the order of the constructor's initialization steps.         *)
(***************************************************************************)
EXTENDS Integers, Sequences, FiniteSets, TLC

(* ----------------------------- program constants ----------------------- *)
\* filter_value stands for -float('Inf'): below every logit, weight 0
sep_token_idx == 102
UnkToken == 100
WindowSize == 128
MaxTokens == 512
filter_value == -1

(* ------------------------------- bounds -------------------------------- *)
\* config.original_vocab_size, the out_length values and sampled ids explored,
\* the [SEP] columns of the input rows, the size of the logits rows, the
\* denominator of top_p and the ranges of the constructor's arguments
original_vocab_size == 104
MaxShortOut == 3
VaryLen == 2
ExtraSteps == 2
EarlySep == 3
LateSep == 400
PlainToken == 7
NumLogits == 4
MaxLogit == 2
TopPDen == 4
MaxWorld == 2
MaxSeed == 1

VARIABLES
    input_ids, input_dec_input_ids, out_length,
    tokens, attention_mask, dec_input_ids,
    all_generate_tokens, generate_tokens, counter, sequence_output,
    sampled, prev_token, generate_context,
    pc, invocations, windows,
    logits, top_k, top_p, logits_k, sorted_indices, logits_p, kpc,
    rank, kwargs, config, dist_group, seed, iteration, model, cpc, init_log

gvars == <<input_ids, input_dec_input_ids, out_length,
           tokens, attention_mask, dec_input_ids,
           all_generate_tokens, generate_tokens, counter, sequence_output,
           sampled, prev_token, generate_context,
           pc, invocations, windows>>

kvars == <<logits, top_k, top_p, logits_k, sorted_indices, logits_p, kpc>>

cvars == <<rank, kwargs, config, dist_group, seed, iteration, model, cpc,
           init_log>>

vars == <<gvars, kvars, cvars>>

(* ------------------------------ helpers -------------------------------- *)
Max(a, b) == IF a >= b THEN a ELSE b

BreakThreshold_Low(n) == (4 * Max(1, n)) \div 5 - 1

\* lines 173-174, int(max(1, out_length) * 0.8): the double product truncated
\* toward zero
BreakThreshold(n) == (4 * Max(1, n)) \div 5

\* (tokens != 0)
NonZeroMask(row) == [i \in 1..Len(row) |-> row[i] # 0]

\* (tokens == sep_token_idx).nonzero(as_tuple=True)[-1], 0-based columns
SepColumns(row) == {i - 1 : i \in {j \in 1..Len(row) : row[j] = sep_token_idx}}

\* a row of n ids: plain ids, [SEP] at 0-based column s, zero padding
Row(n, s) ==
    [i \in 1..n |-> IF i - 1 < s THEN PlainToken
                    ELSE IF i - 1 = s THEN sep_token_idx
                    ELSE 0]

InputRows ==
    { Row(MaxTokens, EarlySep),
      Row(MaxTokens, LateSep),
      Row(EarlySep + 1, EarlySep),
      <<PlainToken, sep_token_idx, PlainToken, sep_token_idx>> }

OutLengths == (-1 .. MaxShortOut) \cup {WindowSize, 2 * WindowSize + ExtraSteps}

\* the ids torch.multinomial may return
SampleIds == {PlainToken, UnkToken, sep_token_idx, original_vocab_size}

CollapseBody_AnyRepeat(ctx, token) ==
    IF Len(ctx) > 0 /\ ctx[Len(ctx)] = token
    THEN ctx
    ELSE Append(ctx, token)

\* lines 186-190: the body of the loop over all_generate_tokens
CollapseBody(ctx, token) ==
    IF Len(ctx) > 0 /\ ctx[Len(ctx)] = UnkToken /\ token = UnkToken
    THEN ctx
    ELSE Append(ctx, token)

\* lines 185-190: the loop body applied to all[lo], ..., all[hi] in order;
\* the test on Len(left) has the left part evaluated before the right part
RECURSIVE CollapseLoop(_, _, _, _)
CollapseLoop(all, lo, hi, ctx) ==
    IF lo > hi THEN ctx
    ELSE IF lo = hi THEN CollapseBody(ctx, all[lo])
    ELSE LET mid == (lo + hi) \div 2
             left == CollapseLoop(all, lo, mid, ctx)
         IN  IF Len(left) >= 0
             THEN CollapseLoop(all, mid + 1, hi, left)
             ELSE left

\* lines 184-191
GenerateContext(all) == CollapseLoop(all, 1, Len(all), <<>>)

(* ------------------------------ generate ------------------------------- *)
\* lines 112-125: the state on entry to the loop; the caller's attention
\* mask is the usual (input_ids != 0)
GenerateEntry ==
    /\ input_ids \in InputRows
    /\ input_dec_input_ids = <<PlainToken>>
    /\ out_length \in OutLengths
    /\ tokens = input_ids
    /\ attention_mask = NonZeroMask(input_ids)
    /\ dec_input_ids = input_dec_input_ids
    /\ all_generate_tokens = <<>>
    /\ generate_tokens = <<>>
    /\ counter = 0
    /\ sequence_output = "None"
    /\ sampled = 0
    /\ prev_token = 0
    /\ generate_context = <<>>
    /\ pc = "while"
    /\ invocations = 0
    /\ windows = 0

WindowDue_Late == counter % (WindowSize + 1) = 0 /\ counter # 0

WindowDue_AtZero == counter % WindowSize = 0

\* line 127
WindowDue == counter % WindowSize = 0 /\ counter # 0

\* lines 126-127, window not due: fall through to the model invocation
LoopEnter ==
    /\ pc = "while"
    /\ counter < out_length
    /\ ~WindowDue
    /\ pc' = "model"
    /\ UNCHANGED <<input_ids, input_dec_input_ids, out_length, tokens,
                   attention_mask, dec_input_ids, all_generate_tokens,
                   generate_tokens, counter, sequence_output, sampled,
                   prev_token, generate_context, invocations, windows>>
    /\ UNCHANGED <<kvars, cvars>>

WriteWindow_Shifted(row, start, win) ==
    [i \in 1..Len(row) |->
        IF i - 1 >= start + 1 /\ i - 1 < start + 1 + Len(win)
        THEN win[i - start - 1] ELSE row[i]]

\* lines 138-140: slice assignment; the slice is clamped to the row
WriteWindow(row, start, win) ==
    [i \in 1..Len(row) |->
        IF i - 1 >= start /\ i - 1 < start + Len(win)
        THEN win[i - start] ELSE row[i]]

\* lines 128-145
SlidingWindow ==
    /\ pc = "while"
    /\ counter < out_length
    /\ WindowDue
    /\ windows' = windows + 1
    /\ LET win == Append(generate_tokens, sep_token_idx)
           cols == SepColumns(tokens)
       IN  IF Cardinality(cols) # 1
           THEN \* bool() of a tensor without exactly one element raises
                /\ pc' = "raised"
                /\ generate_tokens' = win
                /\ UNCHANGED <<tokens, attention_mask, dec_input_ids,
                               sequence_output>>
           ELSE LET start == CHOOSE c \in cols : TRUE IN
                IF start + Len(win) >= MaxTokens
                THEN \* torch.cat of the 2-D tokens[:start] with a 1-D tensor
                     /\ pc' = "raised"
                     /\ generate_tokens' = win
                     /\ UNCHANGED <<tokens, attention_mask, dec_input_ids,
                                    sequence_output>>
                ELSE IF start + Len(win) > Len(tokens)
                THEN \* the clamped slice is shorter than the assigned tensor
                     /\ pc' = "raised"
                     /\ generate_tokens' = win
                     /\ UNCHANGED <<tokens, attention_mask, dec_input_ids,
                                    sequence_output>>
                ELSE /\ tokens' = WriteWindow(tokens, start, win)
                     /\ attention_mask' = NonZeroMask(tokens')
                     /\ dec_input_ids' = input_dec_input_ids
                     /\ generate_tokens' = <<>>
                     /\ sequence_output' = "None"
                     /\ pc' = "model"
    /\ UNCHANGED <<input_ids, input_dec_input_ids, out_length,
                   all_generate_tokens, counter, sampled, prev_token,
                   generate_context, invocations>>
    /\ UNCHANGED <<kvars, cvars>>

\* the sampled sequences explored: any id during the first VaryLen steps of
\* each window, otherwise the previous id again
SampleChoices ==
    IF counter % WindowSize < VaryLen THEN SampleIds
    ELSE {sampled}

\* lines 170-172
ClampToVocab(tok) == IF tok >= original_vocab_size THEN UnkToken ELSE tok

CounterAfterSkip_Stuck(c) == c

\* line 177: a [SEP] below the threshold still uses up one step
CounterAfterSkip(c) == c + 1

\* lines 147-182
ModelStep(tok) ==
    /\ pc = "model"
    /\ invocations' = invocations + 1
    /\ sequence_output' = "Cached"
    /\ sampled' = tok
    /\ prev_token' = ClampToVocab(tok)
    /\ IF prev_token' = sep_token_idx
          /\ Len(all_generate_tokens) > BreakThreshold(out_length)
       THEN /\ pc' = "done"
            /\ generate_context' = GenerateContext(all_generate_tokens)
            /\ UNCHANGED <<counter, dec_input_ids, generate_tokens,
                           all_generate_tokens>>
       ELSE IF prev_token' = sep_token_idx
       THEN /\ counter' = CounterAfterSkip(counter)
            /\ pc' = "while"
            /\ UNCHANGED <<dec_input_ids, generate_tokens,
                           all_generate_tokens, generate_context>>
       ELSE /\ dec_input_ids' = Append(dec_input_ids, prev_token')
            /\ generate_tokens' = Append(generate_tokens, prev_token')
            /\ all_generate_tokens' = Append(all_generate_tokens, prev_token')
            /\ counter' = counter + 1
            /\ pc' = "while"
            /\ UNCHANGED generate_context
    /\ UNCHANGED <<input_ids, input_dec_input_ids, out_length, tokens,
                   attention_mask, windows>>
    /\ UNCHANGED <<kvars, cvars>>

Sample == \E tok \in SampleChoices : ModelStep(tok)

\* line 126 false, then lines 184-191
Return ==
    /\ pc = "while"
    /\ counter >= out_length
    /\ generate_context' = GenerateContext(all_generate_tokens)
    /\ pc' = "done"
    /\ UNCHANGED <<input_ids, input_dec_input_ids, out_length, tokens,
                   attention_mask, dec_input_ids, all_generate_tokens,
                   generate_tokens, counter, sequence_output, sampled,
                   prev_token, invocations, windows>>
    /\ UNCHANGED <<kvars, cvars>>


(* ---------------------------- top_k_logits ----------------------------- *)
\* A logit e stands for e * ln 2, so that exp(logit) = 2^e and softmax
\* probabilities are exact ratios of integers; filter_value stands for -Inf.
Weight(e) == IF e = filter_value THEN 0 ELSE 2 ^ e

LogitRows == [1..NumLogits -> 0..MaxLogit]

RemoveAt(l, i) == [j \in 1..(Len(l) - 1) |-> IF j < i THEN l[j] ELSE l[j + 1]]

ArgMax(l) == CHOOSE i \in 1..Len(l) : \A j \in 1..Len(l) : l[j] <= l[i]

\* torch.topk(logits, top_k)[0][..., -1]: the last of the k largest values
RECURSIVE TopKLast(_, _)
TopKLast(l, k) ==
    IF k = 1 THEN l[ArgMax(l)] ELSE TopKLast(RemoveAt(l, ArgMax(l)), k - 1)

TopKFilter_DropTies(l, k) ==
    IF k > 0
    THEN [i \in 1..Len(l) |-> IF l[i] <= TopKLast(l, k) THEN filter_value ELSE l[i]]
    ELSE l

\* lines 86-90
TopKFilter(l, k) ==
    IF k > 0
    THEN [i \in 1..Len(l) |-> IF l[i] < TopKLast(l, k) THEN filter_value ELSE l[i]]
    ELSE l

\* all orders of the index set S, as sequences
RECURSIVE Orders(_)
Orders(S) ==
    IF S = {} THEN {<<>>}
    ELSE UNION {{<<i>> \o p : p \in Orders(S \ {i})} : i \in S}

\* torch.sort(logits, descending=True)[1]: the order of equal logits is not
\* specified, so every descending order is a possible result
SortedOrders(l) ==
    {p \in Orders(1..Len(l)) :
        \A r \in 1..(Len(l) - 1) : l[p[r]] >= l[p[r + 1]]}

RECURSIVE CumWeight(_, _, _)
CumWeight(l, p, r) == IF r = 0 THEN 0 ELSE CumWeight(l, p, r - 1) + Weight(l[p[r]])

\* lines 96-100: cumsum(softmax(sorted_logits))[r] > top_p, top_p = num/TopPDen
CumulativeAbove(l, p, r, num) ==
    CumWeight(l, p, r) * TopPDen > num * CumWeight(l, p, Len(l))

SortedIndicesToRemove_NoShift(l, p, num) ==
    [r \in 1..Len(l) |-> CumulativeAbove(l, p, r, num)]

\* lines 100-104: the mask shifted right by one, first entry cleared
SortedIndicesToRemove(l, p, num) ==
    [r \in 1..Len(l) |-> IF r = 1 THEN FALSE ELSE CumulativeAbove(l, p, r - 1, num)]

\* lines 92-108
TopPFilter(l, p, num) ==
    IF num > 0
    THEN [i \in 1..Len(l) |->
            IF \E r \in 1..Len(l) : p[r] = i /\ SortedIndicesToRemove(l, p, num)[r]
            THEN filter_value ELSE l[i]]
    ELSE l

TopKIdle ==
    /\ logits = <<>> /\ top_k = 0 /\ top_p = 0 /\ logits_k = <<>>
    /\ sorted_indices = <<>> /\ logits_p = <<>> /\ kpc = "idle"

TopKEntry ==
    /\ logits \in LogitRows
    /\ top_k \in 0..(NumLogits + 1)
    /\ top_p \in 0..TopPDen
    /\ logits_k = <<>> /\ sorted_indices = <<>> /\ logits_p = <<>>
    /\ kpc = "topk"

\* lines 86-90
TopKPart ==
    /\ kpc = "topk"
    /\ IF top_k > Len(logits)
       THEN \* torch.topk: k out of range
            /\ kpc' = "raised"
            /\ UNCHANGED logits_k
       ELSE /\ logits_k' = TopKFilter(logits, top_k)
            /\ kpc' = "topp"
    /\ UNCHANGED <<logits, top_k, top_p, sorted_indices, logits_p>>
    /\ UNCHANGED <<gvars, cvars>>

\* lines 92-109
TopPPart ==
    /\ kpc = "topp"
    /\ \E p \in SortedOrders(logits_k) :
          /\ sorted_indices' = IF top_p > 0 THEN p ELSE sorted_indices
          /\ logits_p' = TopPFilter(logits_k, p, top_p)
    /\ kpc' = "ret"
    /\ UNCHANGED <<logits, top_k, top_p, logits_k>>
    /\ UNCHANGED <<gvars, cvars>>

(* ------------------------------ __init__ ------------------------------- *)
Unset == <<>>

KwargsSet ==
    [world_size : 1..MaxWorld, model_parallel_size : 1..MaxWorld,
     master_ip : {"127.0.0.1"}, master_port : {"29500"},
     seed : {Unset} \cup {<<s>> : s \in 0..MaxSeed}]

ConfigSet ==
    [deepspeed : BOOLEAN, fp16 : BOOLEAN, fp32_embedding : BOOLEAN,
     fp32_tokentypes : BOOLEAN, fp32_layernorm : BOOLEAN]

SeedOf_Zero(kw) == 0

\* line 32
SeedOf(kw) == IF kw.seed = Unset THEN 0 ELSE kw.seed[1]

\* lines 29-31
DistArgs(r, kw) ==
    [rank |-> r, world_size |-> kw.world_size,
     model_parallel_size |-> kw.model_parallel_size,
     master_ip |-> kw.master_ip, master_port |-> kw.master_port]

\* lines 40-68: the module as built from the configuration
BuiltModel(cfg) ==
    [half |-> cfg.deepspeed /\ cfg.fp16,
     cuda |-> TRUE,
     fp16_module |-> cfg.fp16,
     fp32_parts |->
        IF ~cfg.fp16 THEN {}
        ELSE (IF cfg.fp32_embedding
              THEN {"word_embeddings", "position_embeddings",
                    "token_type_embeddings"} ELSE {})
             \cup (IF cfg.fp32_tokentypes THEN {"token_type_embeddings"} ELSE {})
             \cup (IF cfg.fp32_layernorm THEN {"LayerNorm"} ELSE {}),
     loaded |-> FALSE]

NoModel == [half |-> FALSE, cuda |-> FALSE, fp16_module |-> FALSE,
            fp32_parts |-> {}, loaded |-> FALSE]

\* the configuration PlugNLGConfig.from_pretrained(model_dir) will return
CtorEntry ==
    /\ rank \in 0..(MaxWorld - 1)
    /\ kwargs \in KwargsSet
    /\ rank < kwargs.world_size
    /\ config \in {[file |-> c, loaded |-> FALSE] : c \in ConfigSet}
    /\ dist_group = Unset
    /\ seed = Unset
    /\ iteration = Unset
    /\ model = NoModel
    /\ cpc = "from_pretrained"
    /\ init_log = <<>>

\* the object generate() runs on
Constructed ==
    /\ rank = 0
    /\ kwargs = [world_size |-> 1, model_parallel_size |-> 1,
                 master_ip |-> "127.0.0.1", master_port |-> "29500",
                 seed |-> Unset]
    /\ config = [file |-> [deepspeed |-> FALSE, fp16 |-> TRUE,
                           fp32_embedding |-> FALSE, fp32_tokentypes |-> FALSE,
                           fp32_layernorm |-> FALSE],
                 loaded |-> TRUE]
    /\ dist_group = <<DistArgs(rank, kwargs)>>
    /\ seed = <<0>>
    /\ iteration = <<0>>
    /\ model = [BuiltModel(config.file) EXCEPT !.loaded = TRUE]
    /\ cpc = "constructed"
    /\ init_log = <<"from_pretrained", "initialize_distributed",
                    "set_random_seed_mpu", "iteration", "PlugModel",
                    "load_state_dict">>

CtorIdle ==
    /\ rank = 0 /\ kwargs = Unset /\ config = Unset /\ dist_group = Unset
    /\ seed = Unset /\ iteration = Unset /\ model = NoModel /\ cpc = "idle"
    /\ init_log = <<>>

GenerateIdle ==
    /\ input_ids = <<>> /\ input_dec_input_ids = <<>> /\ out_length = 0
    /\ tokens = <<>> /\ attention_mask = <<>> /\ dec_input_ids = <<>>
    /\ all_generate_tokens = <<>> /\ generate_tokens = <<>> /\ counter = 0
    /\ sequence_output = "None" /\ sampled = 0 /\ prev_token = 0
    /\ generate_context = <<>> /\ pc = "idle" /\ invocations = 0
    /\ windows = 0

\* line 28
LoadConfig ==
    /\ cpc = "from_pretrained"
    /\ config' = [config EXCEPT !.loaded = TRUE]
    /\ init_log' = Append(init_log, "from_pretrained")
    /\ cpc' = "initialize_distributed"
    /\ UNCHANGED <<rank, kwargs, dist_group, seed, iteration, model>>
    /\ UNCHANGED <<gvars, kvars>>

\* lines 29-31
InitializeDistributed ==
    /\ cpc = "initialize_distributed"
    /\ dist_group' = <<DistArgs(rank, kwargs)>>
    /\ init_log' = Append(init_log, "initialize_distributed")
    /\ cpc' = "set_random_seed_mpu"
    /\ UNCHANGED <<rank, kwargs, config, seed, iteration, model>>
    /\ UNCHANGED <<gvars, kvars>>

\* lines 32-33
SetRandomSeed ==
    /\ cpc = "set_random_seed_mpu"
    /\ seed' = <<SeedOf(kwargs)>>
    /\ init_log' = Append(init_log, "set_random_seed_mpu")
    /\ cpc' = "iteration"
    /\ UNCHANGED <<rank, kwargs, config, dist_group, iteration, model>>
    /\ UNCHANGED <<gvars, kvars>>

\* line 34
SetIteration ==
    /\ cpc = "iteration"
    /\ iteration' = <<0>>
    /\ init_log' = Append(init_log, "iteration")
    /\ cpc' = "PlugModel"
    /\ UNCHANGED <<rank, kwargs, config, dist_group, seed, model>>
    /\ UNCHANGED <<gvars, kvars>>

\* lines 35, 39-68
BuildModel ==
    /\ cpc = "PlugModel"
    /\ model' = BuiltModel(config.file)
    /\ init_log' = Append(init_log, "PlugModel")
    /\ cpc' = "pre_load"
    /\ UNCHANGED <<rank, kwargs, config, dist_group, seed, iteration>>
    /\ UNCHANGED <<gvars, kvars>>

\* lines 70-78; model.module exists on the FP16_Module wrapper, on a bare
\* PlugModel the attribute lookup is outside this file and may raise
LoadCheckpoint ==
    /\ cpc = "pre_load"
    /\ \E ok \in (IF model.fp16_module THEN {TRUE} ELSE {TRUE, FALSE}) :
          IF ok
          THEN /\ model' = [model EXCEPT !.loaded = TRUE]
               /\ init_log' = Append(init_log, "load_state_dict")
               /\ cpc' = "constructed"
          ELSE /\ cpc' = "raised"
               /\ UNCHANGED <<model, init_log>>
    /\ UNCHANGED <<rank, kwargs, config, dist_group, seed, iteration>>
    /\ UNCHANGED <<gvars, kvars>>

(* --------------------------- specifications ---------------------------- *)
Init == GenerateEntry /\ TopKIdle /\ Constructed

Next == LoopEnter \/ SlidingWindow \/ Sample \/ Return

Spec == Init /\ [][Next]_vars

InitTopK == TopKEntry /\ GenerateIdle /\ Constructed

NextTopK == TopKPart \/ TopPPart

SpecTopK == InitTopK /\ [][NextTopK]_vars

InitCtor == CtorEntry /\ GenerateIdle /\ TopKIdle

NextCtor ==
    \/ LoadConfig \/ InitializeDistributed \/ SetRandomSeed \/ SetIteration
    \/ BuildModel \/ LoadCheckpoint

SpecCtor == InitCtor /\ [][NextCtor]_vars

(* ------------------------------ properties ----------------------------- *)
OneSep(row) == Cardinality(SepColumns(row)) = 1

\* C1: at every model invocation the current window holds between 0 and 127
\* generated tokens (the value written into position_ids), and the decoder
\* input is the caller's dec_input_ids followed by exactly those tokens.
C1_DecoderContextBounded ==
    pc = "model" =>
        /\ Len(generate_tokens) \in 0..(WindowSize - 1)
        /\ dec_input_ids = input_dec_input_ids \o generate_tokens
        /\ Len(dec_input_ids) <= Len(input_dec_input_ids) + (WindowSize - 1)

C1_Witness ==
    pc = "model" /\ windows >= 1 /\ Len(generate_tokens) = WindowSize - 1

\* the row the sliding-window step is meant to produce
IntendedWindow(row, start, win) ==
    IF start + Len(win) >= MaxTokens
    THEN LET cat == SubSeq(row, 1, start) \o win
         IN  SubSeq(cat, Max(1, Len(cat) - MaxTokens + 1), Len(cat))
    ELSE [i \in 1..Len(row) |->
            IF i > start /\ i <= start + Len(win) THEN win[i - start] ELSE row[i]]

\* C2: for a single row of at most 512 ids with exactly one [SEP], every
\* sliding-window step completes without raising and leaves a row of at most
\* 512 ids: the last 512 ids of (ids before [SEP], window ids) when [SEP]
\* column + window length >= 512, otherwise the window ids written in place
\* at the [SEP] column with the length unchanged.
C2_WindowStepCompletes ==
    [][(/\ pc = "while" /\ counter < out_length /\ WindowDue
        /\ Len(input_ids) <= MaxTokens /\ OneSep(input_ids) /\ OneSep(tokens))
       => LET start == CHOOSE c \in SepColumns(tokens) : TRUE
              win == Append(generate_tokens, sep_token_idx)
          IN  /\ pc' = "model"
              /\ Len(tokens') <= MaxTokens
              /\ tokens' = IntendedWindow(tokens, start, win)
              /\ (start + Len(win) < MaxTokens => Len(tokens') = Len(tokens))]_vars

\* a natural number that every step of generate strictly decreases:
\* 2 * (iterations left) + 1 at the loop test, 2 * (iterations left) at the
\* model invocation, 0 once generate has returned or raised
Measure ==
    IF pc = "while" THEN 2 * Max(0, out_length - counter) + 1
    ELSE IF pc = "model" THEN 2 * Max(0, out_length - counter)
    ELSE 0

\* C3: generate terminates for every out_length (every step strictly
\* decreases the natural number Measure): each loop iteration either
\* breaks or increases the counter by exactly 1, the model is invoked at most
\* max(0, out_length) times, and the returned generate_context holds at most
\* as many ids as there were model invocations.
C3_Terminates ==
    /\ [](Measure >= 0)
    /\ [](invocations <= Max(0, out_length))
    /\ [](pc = "done" =>
            /\ Len(generate_context) <= invocations
            /\ Len(generate_context) <= Max(0, out_length))
    /\ [][pc = "model" => (pc' = "done" \/ counter' = counter + 1)]_vars
    /\ [][(pc = "while" \/ pc = "model") => Measure' < Measure]_vars

C3_Witness ==
    pc = "done" /\ out_length > WindowSize /\ invocations = out_length

KthLargest(l, k) ==
    CHOOSE v \in {l[i] : i \in 1..Len(l)} :
        /\ Cardinality({i \in 1..Len(l) : l[i] > v}) < k
        /\ Cardinality({i \in 1..Len(l) : l[i] >= v}) >= k

\* C4: with 1 <= top_k <= number of logits and top_p = 0, an entry becomes
\* filter_value iff it is strictly below the k-th largest logit, every other
\* entry keeps its value, at least k entries are retained and the largest
\* logit is retained.
C4_TopKKeepsKLargest ==
    (kpc = "ret" /\ top_p = 0 /\ top_k >= 1 /\ top_k <= Len(logits)) =>
        LET kth == KthLargest(logits, top_k)
            n == Len(logits)
        IN  /\ Len(logits_p) = n
            /\ \A i \in 1..n :
                  logits_p[i] = IF logits[i] < kth THEN filter_value ELSE logits[i]
            /\ Cardinality({i \in 1..n : logits_p[i] = logits[i]}) >= top_k
            /\ \A i \in 1..n :
                  (\A j \in 1..n : logits[j] <= logits[i])
                      => logits_p[i] = logits[i]

C4_Witness ==
    /\ kpc = "ret" /\ top_p = 0 /\ top_k >= 1
    /\ Cardinality({i \in 1..Len(logits) : logits_p[i] # filter_value}) > top_k
    /\ \E i \in 1..Len(logits) : logits_p[i] = filter_value

\* sum of exp(logit) over the ranks 1..r of the order p
MassUpTo(l, p) ==
    LET S[r \in 0..Len(l)] ==
            IF r = 0 THEN 0
            ELSE S[r - 1] + (IF l[p[r]] = filter_value THEN 0 ELSE 2 ^ l[p[r]])
    IN  S

\* cumulative probability of ranks 1..r exceeds top_p / TopPDen
ExceedsTopP(l, p, r) ==
    TopPDen * MassUpTo(l, p)[r] > top_p * MassUpTo(l, p)[Len(l)]

\* C5: with top_p > 0 the tokens are ranked in descending order and a token
\* is set to filter_value iff the cumulative probability up to and including
\* its predecessor exceeds top_p; the first-ranked token is never removed and
\* nothing is removed when the cumulative probability never exceeds top_p.
C5_NucleusKeepsFirstAbove ==
    (kpc = "ret" /\ top_p > 0) =>
        LET n == Len(logits_k)
            p == sorted_indices
        IN  /\ \A r \in 1..(n - 1) : logits_k[p[r]] >= logits_k[p[r + 1]]
            /\ {p[r] : r \in 1..n} = 1..n
            /\ \A r \in 1..n :
                  logits_p[p[r]] =
                      IF r > 1 /\ ExceedsTopP(logits_k, p, r - 1)
                      THEN filter_value ELSE logits_k[p[r]]
            /\ logits_p[p[1]] = logits_k[p[1]]
            /\ logits_p[p[1]] # filter_value
            /\ ((\A r \in 1..n : ~ExceedsTopP(logits_k, p, r))
                    => logits_p = logits_k)

C5_Witness ==
    /\ kpc = "ret" /\ top_p > 0 /\ top_k = 0
    /\ \E i \in 1..Len(logits) : logits_p[i] = filter_value
    /\ Cardinality({i \in 1..Len(logits) : logits_p[i] # filter_value}) >= 2

CtorOrder ==
    <<"from_pretrained", "initialize_distributed", "set_random_seed_mpu",
      "iteration", "PlugModel", "load_state_dict">>

Done(step) == \E i \in 1..Len(init_log) : init_log[i] = step

\* C6: the constructor loads the configuration, then initializes the process
\* group with the caller's rank, world_size, model_parallel_size, master_ip and
\* master_port, then sets the seed (kwargs seed, or 0 without one), then sets
\* iteration to 0, and only then builds the model and loads the checkpoint.
C6_InitializationOrder ==
    /\ Len(init_log) <= Len(CtorOrder)
    /\ init_log = SubSeq(CtorOrder, 1, Len(init_log))
    /\ config.loaded <=> Done("from_pretrained")
    /\ Done("initialize_distributed") <=> dist_group # Unset
    /\ dist_group # Unset =>
          /\ dist_group[1].rank = rank
          /\ dist_group[1].world_size = kwargs.world_size
          /\ dist_group[1].model_parallel_size = kwargs.model_parallel_size
          /\ dist_group[1].master_ip = kwargs.master_ip
          /\ dist_group[1].master_port = kwargs.master_port
    /\ Done("set_random_seed_mpu") <=> seed # Unset
    /\ seed # Unset =>
          seed[1] = IF kwargs.seed = Unset THEN 0 ELSE kwargs.seed[1]
    /\ Done("iteration") <=> iteration # Unset
    /\ iteration # Unset => iteration[1] = 0
    /\ model # NoModel =>
          /\ Done("PlugModel")
          /\ dist_group # Unset /\ seed # Unset /\ iteration # Unset
          /\ config.loaded
    /\ model.loaded => Done("load_state_dict")

C6_Witness ==
    cpc = "constructed" /\ model.loaded /\ kwargs.seed # Unset /\ seed = kwargs.seed

\* the window steps that have run: one for every positive multiple of 128
\* at which the loop body was entered
WindowStepsDue ==
    Cardinality({m \in 1..counter :
        /\ m % WindowSize = 0
        /\ \/ m < counter
           \/ pc \in {"model", "raised"}
           \/ pc = "done" /\ m < out_length})

\* C7: the sliding-window step runs exactly once for each positive multiple of
\* 128 at which the loop body is entered, never at counter 0; the model
\* invocation that follows sees dec_input_ids reset to the caller's, an empty
\* generate_tokens, sequence_output None and attention_mask = (tokens != 0);
\* the step leaves all_generate_tokens unchanged.
C7_WindowEvery128 ==
    /\ [](windows = WindowStepsDue)
    /\ []((pc = "model" /\ counter % WindowSize = 0 /\ counter # 0) =>
            /\ dec_input_ids = input_dec_input_ids
            /\ generate_tokens = <<>>
            /\ sequence_output = "None"
            /\ attention_mask = [i \in 1..Len(tokens) |-> tokens[i] # 0])
    /\ [][windows' # windows =>
            /\ windows' = windows + 1
            /\ all_generate_tokens' = all_generate_tokens]_vars

C7_Witness ==
    pc = "model" /\ counter = 2 * WindowSize /\ windows = 2

\* C8: a sampled [SEP] ends generation only when strictly more than
\* int(max(1, out_length) * 0.8) tokens have been emitted; otherwise it is
\* neither emitted nor appended to dec_input_ids and still uses one step; a
\* return after fewer than out_length invocations follows such a [SEP].
C8_SepEndsOnlyPastThreshold ==
    /\ [][pc = "model" =>
            LET past == 5 * Len(all_generate_tokens) > 4 * Max(1, out_length)
            IN  /\ pc' = "done" <=> (sampled' = sep_token_idx /\ past)
                /\ (sampled' = sep_token_idx /\ ~past) =>
                      /\ pc' = "while"
                      /\ all_generate_tokens' = all_generate_tokens
                      /\ generate_tokens' = generate_tokens
                      /\ dec_input_ids' = dec_input_ids
                      /\ counter' = counter + 1]_vars
    /\ []((pc = "done" /\ invocations < out_length) =>
            /\ sampled = sep_token_idx
            /\ 5 * Len(all_generate_tokens) > 4 * Max(1, out_length))

C8_Witness ==
    /\ pc = "done" /\ invocations < out_length
    /\ Len(all_generate_tokens) < invocations - 1

\* out is seq without every 100 that directly follows a 100, order kept
IsRunCollapse(seq, out) ==
    LET drop == {i \in 2..Len(seq) :
                    seq[i] = UnkToken /\ seq[i - 1] = UnkToken}
    IN  /\ Len(out) = Len(seq) - Cardinality(drop)
        /\ \A i \in (1..Len(seq)) \ drop :
              out[i - Cardinality({j \in drop : j < i})] = seq[i]

\* C9: generate_context never contains 102, never two adjacent 100s, and only
\* ids below original_vocab_size or 100; every sampled id other than [SEP] is
\* emitted in sampling order (ids >= original_vocab_size as 100), and the
\* output is the emitted sequence with runs of 100 collapsed.
C9_OutputWellFormed ==
    /\ [](pc = "done" =>
            /\ \A i \in 1..Len(generate_context) :
                  /\ generate_context[i] # sep_token_idx
                  /\ \/ generate_context[i] < original_vocab_size
                     \/ generate_context[i] = UnkToken
            /\ \A i \in 1..(Len(generate_context) - 1) :
                  ~(generate_context[i] = UnkToken
                    /\ generate_context[i + 1] = UnkToken)
            /\ IsRunCollapse(all_generate_tokens, generate_context))
    /\ [][pc = "model" =>
            LET id == IF sampled' >= original_vocab_size
                      THEN UnkToken ELSE sampled'
            IN  all_generate_tokens' =
                    IF id = sep_token_idx THEN all_generate_tokens
                    ELSE Append(all_generate_tokens, id)]_vars

C9_Witness ==
    /\ pc = "done"
    /\ Len(generate_context) >= 2
    /\ Len(generate_context) < Len(all_generate_tokens)
    /\ \E i \in 1..Len(generate_context) : generate_context[i] = PlainToken

\* C10: with exactly one [SEP] in the initial row, every completed window
\* step leaves exactly one [SEP]: the ids before the old [SEP] are unchanged,
\* the old [SEP] column holds the first id of the finished window (or still
\* [SEP] when the window is empty), and [SEP] directly follows the last id of
\* the window.
C10_SingleSepKept ==
    /\ []((pc = "model" /\ counter % WindowSize = 0 /\ OneSep(input_ids))
            => OneSep(tokens))
    /\ [][(windows' = windows + 1 /\ pc' = "model" /\ OneSep(input_ids)) =>
            LET s == CHOOSE i \in 1..Len(tokens) : tokens[i] = sep_token_idx
                n == Len(generate_tokens)
            IN  /\ Len(tokens') = Len(tokens)
                /\ \A i \in 1..(s - 1) : tokens'[i] = tokens[i]
                /\ tokens'[s] = IF n > 0 THEN generate_tokens[1]
                                ELSE sep_token_idx
                /\ \A i \in 1..n : tokens'[s + i - 1] = generate_tokens[i]
                /\ tokens'[s + n] = sep_token_idx
                /\ \A i \in 1..Len(tokens) :
                      tokens'[i] = sep_token_idx => i = s + n]_vars

C10_Witness ==
    /\ pc = "model" /\ windows = 2 /\ OneSep(tokens)
    /\ \E i \in 1..Len(tokens) :
          tokens[i] = sep_token_idx /\ i > EarlySep + 1 + WindowSize
=============================================================================
